---- MODULE Spec2Model ----
(***************************************************************************)
(* Model of runSimulatedAnnealing (src/src/index.ts) run with the          *)
(* strategies of src/src/index.test.ts (copyState, generateNewState,       *)
(* getCost on number[][] groupings), followed by the in-place sort the     *)
(* test body applies to the returned state.                                *)
(*                                                                         *)
(* Numbers.  Temperatures and Math.random() values are exact rationals     *)
(* <<n, d>> (d > 0, lowest terms).  Every cost the test's getCost returns  *)
(* is 0 - log(s1) - log(s2) - ... for positive integers s, that is         *)
(* -ln(q) for a positive rational q; a cost (and a difference of costs)    *)
(* is represented by that q, again as <<n, d>>.  Then                      *)
(*      x < y                    iff  q(x) > q(y)                          *)
(*      x - y                    is   q(x) / q(y)                          *)
(*      Math.exp(-x / (a/b))     is   q(x) ^ (b/a)                         *)
(* so the comparisons of the engine are decided exactly, over the reals.   *)
(*                                                                         *)
(* Objects.  A state (number[][]) is an object with identity: heap maps a  *)
(* reference to the value stored there; initialState, currentState,        *)
(* bestState and neighborState are references.                             *)
(***************************************************************************)
EXTENDS Integers, Sequences, FiniteSets, TLC

VARIABLES
  options,            \* the options argument (a field is Absent or <<value>>)
  initialState,       \* reference to the caller's state
  heap,               \* reference -> [live, value]
  currentState, currentCost, currentTemperature,
  bestState, bestCost,
  i,                  \* the for loop's counter
  neighborState, neighborCost, changeInCost,
  rand,               \* the value Math.random() returned at line 102, or NoDraw
  randomGroupOne, randomGroupTwo,   \* locals of generateUniqueRandomNumbers
  pc,
  input,              \* history: the value of initialState when the call began
  trials,             \* history: inner-loop iterations completed
  draws,              \* history: calls of Math.random() made by the engine
  nonImproving,       \* history: neighbours generated with neighborCost >= currentCost
  minSeen             \* history: least cost among initialState and all neighbours

vars == <<options, initialState, heap, currentState, currentCost,
          currentTemperature, bestState, bestCost, i, neighborState,
          neighborCost, changeInCost, rand, randomGroupOne, randomGroupTwo,
          pc, input, trials, draws, nonImproving, minSeen>>

----------------------------------------------------------------------------
(* Bounds of the model *)

MaxSwaps == 2        \* explicit swapsPerTemperature ranges over 0..MaxSwaps
RandomGrid == 4      \* Math.random() ranges over k/RandomGrid, 0 <= k < RandomGrid
HeapSize == 4        \* references are 1..HeapSize

----------------------------------------------------------------------------
(* Exact rationals *)

RECURSIVE Gcd(_, _)
Gcd(a, b) == IF b = 0 THEN a ELSE Gcd(b, a % b)

Rat(n, d) == LET g == Gcd(n, d) IN <<n \div g, d \div g>>

RatMul(x, y) == Rat(x[1] * y[1], x[2] * y[2])

RatDiv(x, y) == Rat(x[1] * y[2], x[2] * y[1])

RatLess(x, y) == x[1] * y[2] < y[1] * x[2]

RECURSIVE Pow(_, _)
Pow(x, n) == IF n = 0 THEN 1 ELSE x * Pow(x, n - 1)

----------------------------------------------------------------------------
(* Costs: the number -ln(q) is held as q *)

Zero == <<1, 1>>

costLess(x, y) == RatLess(y, x)

costSub(x, y) == RatDiv(x, y)

isNegative(x) == costLess(x, Zero)

(* Math.exp(-x / t) > u, for a cost difference x, a temperature t = a/b > 0
   and u = s/d >= 0:  q^(b/a) > s/d  iff  q^b > (s/d)^a. *)
expGreater(x, t, u) ==
  Pow(x[1], t[2]) * Pow(u[2], t[1]) > Pow(u[1], t[1]) * Pow(x[2], t[2])

----------------------------------------------------------------------------
(* The heap of state objects *)

Refs == 1..HeapSize

NoRef == 0

FreeCell == [live |-> FALSE, value |-> <<>>]

Cell(v) == [live |-> TRUE, value |-> v]

(* A reference no live object has: the least free one. *)
newRef(h) == CHOOSE r \in Refs : ~h[r].live /\ \A s \in Refs : ~h[s].live => r <= s

(* Objects no variable refers to any more are dropped. *)
collect(h, roots) == [r \in Refs |-> IF r \in roots THEN h[r] ELSE FreeCell]

----------------------------------------------------------------------------
(* The strategies of src/src/index.test.ts *)

(* copyState: a new outer array holding a new array per group, with the
   same numbers.  copyValue is what the new object holds, copyRef where
   it lives. *)
copyValue(state) ==
  [g \in 1..Len(state) |-> [k \in 1..Len(state[g]) |-> state[g][k]]]

copyRefAliased(h, ref) == ref

copyRef(h, ref) == newRef(h)

(* generateRandomNumber(min, max): the values
   Math.floor(Math.random() * (max - min + 1)) + min can take, Math.random()
   being any number of [0, 1). *)
generateRandomNumber(min, max) ==
  IF max - min + 1 > 0 THEN min..max
  ELSE IF max - min + 1 = 0 THEN {min}
  ELSE (max + 1)..min

(* The swap of generateNewState, lines 93-95, on the copy; g1, g2, i1, i2
   are the code's 0-based indices. *)
swap(result, g1, i1, g2, i2) ==
  LET temp == result[g1 + 1][i1 + 1]
      r1 == [result EXCEPT ![g1 + 1][i1 + 1] = result[g2 + 1][i2 + 1]]
  IN [r1 EXCEPT ![g2 + 1][i2 + 1] = temp]

(* preferences[a][b]: 2 for two odd or two even numbers, 0 otherwise. *)
preferences(a, b) == IF a % 2 = b % 2 THEN 2 ELSE 0

(* The double loop of getCost over the pairs i < j of a group. *)
RECURSIVE sumPairs(_, _, _)
sumPairs(group, a, b) ==
  IF a > Len(group) - 1 THEN 0
  ELSE IF b > Len(group) THEN sumPairs(group, a + 1, a + 2)
  ELSE preferences(group[a], group[b]) + sumPairs(group, a, b + 1)

groupQualityScore(group) == sumPairs(group, 1, 2)

(* getCost: accumulator - (score ? Math.log(score) : 0) over the groups,
   from 0; as q, the product of the non-zero scores. *)
RECURSIVE reduceCost(_, _)
reduceCost(state, g) ==
  IF g > Len(state) THEN 1
  ELSE LET score == groupQualityScore(state[g])
       IN (IF score # 0 THEN score ELSE 1) * reduceCost(state, g + 1)

getCost(state) == Rat(reduceCost(state, 1), 1)

----------------------------------------------------------------------------
(* Array.prototype.sort() with no comparator, as the test body uses it:
   elements are compared as strings, a string being its UTF-16 codes. *)

RECURSIVE digits(_)
digits(n) == IF n < 10 THEN <<48 + n>> ELSE Append(digits(n \div 10), 48 + (n % 10))

RECURSIVE joined(_)
joined(group) ==
  IF group = <<>> THEN <<>>
  ELSE IF Len(group) = 1 THEN digits(group[1])
  ELSE digits(group[1]) \o <<44>> \o joined(Tail(group))

RECURSIVE stringLess(_, _)
stringLess(a, b) ==
  IF b = <<>> THEN FALSE
  ELSE IF a = <<>> THEN TRUE
  ELSE IF a[1] # b[1] THEN a[1] < b[1]
  ELSE stringLess(Tail(a), Tail(b))

(* The place, from 1, that the stable sort gives the element at index k
   of the array whose elements have the strings keys[1], keys[2], ... *)
sortedPlace(keys, k) ==
  1 + Cardinality({ j \in 1..Len(keys) :
                      \/ stringLess(keys[j], keys[k])
                      \/ (~stringLess(keys[k], keys[j]) /\ j < k) })

sortByString(array, keys) ==
  [p \in 1..Len(array) |->
     array[CHOOSE k \in 1..Len(array) : sortedPlace(keys, k) = p]]

sortGroup(group) ==
  sortByString(group, [k \in 1..Len(group) |-> digits(group[k])])

sortGroupsUnordered(state) == state

sortGroups(state) ==
  sortByString(state, [g \in 1..Len(state) |-> joined(state[g])])

(* actualResult.forEach((group) => group.sort()); actualResult.sort(); *)
sortResult(state) == sortGroups([g \in 1..Len(state) |-> sortGroup(state[g])])

----------------------------------------------------------------------------
(* The options and their defaults (index.ts lines 72-77) *)

Absent == <<>>

defaultCoolingFactor == <<99, 100>>
defaultInitialTemperature == <<1, 1>>
defaultMinimumTemperature == <<1, 100000>>
defaultSwapsPerTemperature == 10

coolingFactor ==
  IF options.coolingFactor = Absent THEN defaultCoolingFactor
  ELSE options.coolingFactor

initialTemperature ==
  IF options.initialTemperature = Absent THEN defaultInitialTemperature
  ELSE options.initialTemperature

minimumTemperature ==
  IF options.minimumTemperature = Absent THEN defaultMinimumTemperature
  ELSE options.minimumTemperature

swapsPerTemperature ==
  IF options.swapsPerTemperature = Absent THEN defaultSwapsPerTemperature
  ELSE options.swapsPerTemperature[1]

Options(c, t0, tmin, n) ==
  [coolingFactor |-> c, initialTemperature |-> t0,
   minimumTemperature |-> tmin, swapsPerTemperature |-> n]

----------------------------------------------------------------------------
(* The calls the model makes.  All have a finite minimumTemperature > 0 and
   0 < coolingFactor < 1.  The temperatures are such that the loop's
   temperatures a/b keep a and b small: q^(b/a) is computed exactly. *)

Half == <<1, 2>>

(* Short schedules with every option given: 0 to 3 outer iterations, and
   initialTemperature below, at and above minimumTemperature. *)
ShortSchedules ==
  { Options(c, t0, tmin, <<n>>) :
      c \in {Half, <<1, 4>>},
      t0 \in {<<2, 1>>, <<1, 1>>, <<1, 4>>},
      tmin \in {<<1, 4>>, <<1, 2>>, <<1, 1>>},
      n \in 0..MaxSwaps }

(* Calls that leave options out, so that each default is used. *)
DefaultSchedules ==
  { Options(Half, Absent, <<1, 2>>, Absent),
    Options(Absent, Absent, <<99, 100>>, <<1>>),
    Options(Half, <<1, 100000>>, Absent, <<1>>),
    Options(Half, <<1, 200000>>, Absent, <<1>>) }

EightElements == <<<<1, 2, 3, 4>>, <<5, 6, 7, 8>>>>

FourElements == <<<<1, 4>>, <<2, 3>>>>

(* Initial states: the two of the tests, the empty collection, a single
   group of size 0 and of size 1, two and three groups of size 1, and a
   grouping that is already optimal and not sorted. *)
SmallInputs ==
  { <<>>, << <<>> >>, << <<1>> >>, << <<1>>, <<2>> >>,
    << <<3>>, <<2>>, <<1>> >>, FourElements, << <<4, 2>>, <<3, 1>> >> }

Calls ==
  (SmallInputs \X (ShortSchedules \cup DefaultSchedules))
  \cup ({EightElements} \X {Options(Half, Absent, <<1, 2>>, <<2>>)})

MathRandom == { Rat(k, RandomGrid) : k \in 0..(RandomGrid - 1) }

NoDraw == <<>>

NoCost == <<>>

NoIndex == -1

----------------------------------------------------------------------------
(* runSimulatedAnnealing, lines 72-88: the state when the while loop is
   first reached. *)

Init ==
  \E call \in Calls :
    LET h0 == [r \in Refs |-> IF r = 1 THEN Cell(call[1]) ELSE FreeCell]
        c == copyRef(h0, 1)
        h1 == [h0 EXCEPT ![c] = Cell(copyValue(h0[1].value))]
        b == copyRef(h1, 1)
        h2 == [h1 EXCEPT ![b] = Cell(copyValue(h1[1].value))]
    IN /\ options = call[2]
       /\ input = call[1]
       /\ initialState = 1
       /\ heap = h2
       /\ currentState = c
       /\ currentCost = getCost(h2[1].value)
       /\ currentTemperature = initialTemperature
       /\ bestState = b
       /\ bestCost = getCost(h2[1].value)
       /\ i = 0
       /\ neighborState = NoRef
       /\ neighborCost = NoCost
       /\ changeInCost = NoCost
       /\ rand = NoDraw
       /\ randomGroupOne = NoIndex
       /\ randomGroupTwo = NoIndex
       /\ pc = "while"
       /\ trials = 0
       /\ draws = 0
       /\ nonImproving = 0
       /\ minSeen = getCost(call[1])

----------------------------------------------------------------------------
(* runSimulatedAnnealing, lines 90-117 *)

(* line 90: currentTemperature > minimumTemperature *)
whileContinues(temperature, minimum) == RatLess(minimum, temperature)

(* line 90, the test holds; line 91, let i = 0 *)
WhileEnter ==
  /\ pc = "while"
  /\ whileContinues(currentTemperature, minimumTemperature)
  /\ i' = 0
  /\ pc' = "for"
  /\ UNCHANGED <<options, initialState, heap, currentState, currentCost,
                 currentTemperature, bestState, bestCost, neighborState,
                 neighborCost, changeInCost, rand, randomGroupOne,
                 randomGroupTwo, input, trials, draws, nonImproving, minSeen>>

(* line 90, the test fails; line 117, return bestState *)
Return ==
  /\ pc = "while"
  /\ ~whileContinues(currentTemperature, minimumTemperature)
  /\ pc' = "done"
  /\ UNCHANGED <<options, initialState, heap, currentState, currentCost,
                 currentTemperature, bestState, bestCost, i, neighborState,
                 neighborCost, changeInCost, rand, randomGroupOne,
                 randomGroupTwo, input, trials, draws, nonImproving, minSeen>>

forContinuesInclusive(counter, swaps) == counter <= swaps

(* line 91: i < swapsPerTemperature *)
forContinues(counter, swaps) == counter < swaps

(* line 91, the test fails; line 114 *)
Cool ==
  /\ pc = "for"
  /\ ~forContinues(i, swapsPerTemperature)
  /\ currentTemperature' = RatMul(currentTemperature, coolingFactor)
  /\ pc' = "while"
  /\ UNCHANGED <<options, initialState, heap, currentState, currentCost,
                 bestState, bestCost, i, neighborState, neighborCost,
                 changeInCost, rand, randomGroupOne, randomGroupTwo, input,
                 trials, draws, nonImproving, minSeen>>

(* lines 94-98, once generateNewState has returned the object at ref of
   heap h: neighborState, neighborCost and changeInCost are set. *)
Evaluate(h, ref) ==
  \E cost \in {getCost(h[ref].value)} :
     /\ heap' = h
     /\ neighborState' = ref
     /\ neighborCost' = cost
     /\ changeInCost' = costSub(cost, currentCost)
     /\ nonImproving' = nonImproving + (IF costLess(cost, currentCost) THEN 0 ELSE 1)
     /\ minSeen' = IF costLess(cost, minSeen) THEN cost ELSE minSeen
     /\ pc' = "accept"

(* line 91, the test holds; generateNewState (test lines 71-74) finds no
   group and returns its argument itself. *)
GenerateEmpty ==
  /\ pc = "for"
  /\ forContinues(i, swapsPerTemperature)
  /\ Len(heap[currentState].value) = 0
  /\ Evaluate(heap, currentState)
  /\ UNCHANGED <<options, initialState, currentState, currentCost,
                 currentTemperature, bestState, bestCost, i, rand,
                 randomGroupOne, randomGroupTwo, input, trials, draws>>

(* line 91, the test holds; generateNewState calls
   generateUniqueRandomNumbers(0, numGroups - 1), test lines 53-54. *)
GenerateBegin ==
  /\ pc = "for"
  /\ forContinues(i, swapsPerTemperature)
  /\ Len(heap[currentState].value) # 0
  /\ \E g \in generateRandomNumber(0, Len(heap[currentState].value) - 1) :
       /\ randomGroupOne' = g
       /\ randomGroupTwo' = g
  /\ pc' = "unique"
  /\ UNCHANGED <<options, initialState, heap, currentState, currentCost,
                 currentTemperature, bestState, bestCost, i, neighborState,
                 neighborCost, changeInCost, rand, input, trials, draws,
                 nonImproving, minSeen>>

(* test lines 56-58: one turn of the while loop of
   generateUniqueRandomNumbers *)
Redraw ==
  /\ pc = "unique"
  /\ randomGroupOne = randomGroupTwo
  /\ \E g \in generateRandomNumber(0, Len(heap[currentState].value) - 1) :
       randomGroupTwo' = g
  /\ UNCHANGED <<options, initialState, heap, currentState, currentCost,
                 currentTemperature, bestState, bestCost, i, neighborState,
                 neighborCost, changeInCost, rand, randomGroupOne, pc, input,
                 trials, draws, nonImproving, minSeen>>

(* test lines 60 and 82-97: the two groups differ; the swap is made on a
   copy, which generateNewState returns. *)
GenerateSwap ==
  /\ pc = "unique"
  /\ randomGroupOne # randomGroupTwo
  /\ \E groups \in {heap[currentState].value} :
       \E i1 \in generateRandomNumber(0, Len(groups[1]) - 1),
          i2 \in generateRandomNumber(0, Len(groups[1]) - 1) :
         \E result \in {swap(copyValue(groups), randomGroupOne, i1, randomGroupTwo, i2)},
            ref \in {copyRef(heap, currentState)} :
           \E h \in {[heap EXCEPT ![ref] = Cell(result)]} : Evaluate(h, ref)
  /\ randomGroupOne' = NoIndex
  /\ randomGroupTwo' = NoIndex
  /\ UNCHANGED <<options, initialState, currentState, currentCost,
                 currentTemperature, bestState, bestCost, i, rand, input,
                 trials, draws>>

acceptedWithSignSlip(change, temperature, u) ==
  isNegative(change) \/ expGreater(costSub(Zero, change), temperature, u)

(* lines 100-103: changeInCost < 0 || Math.exp(-changeInCost /
   currentTemperature) > Math.random(), u being what Math.random() returns *)
accepted(change, temperature, u) ==
  isNegative(change) \/ expGreater(change, temperature, u)

callsRandomAlways(change) == TRUE

(* line 101-102: || evaluates its right operand, and so calls
   Math.random(), only when changeInCost < 0 is false *)
callsRandom(change) == ~isNegative(change)

(* lines 100-106 *)
Accept ==
  /\ pc = "accept"
  /\ \E u \in MathRandom :
       /\ rand' = IF callsRandom(changeInCost) THEN u ELSE NoDraw
       /\ IF accepted(changeInCost, currentTemperature, u)
            THEN /\ currentState' = neighborState
                 /\ currentCost' = neighborCost
            ELSE UNCHANGED <<currentState, currentCost>>
  /\ draws' = draws + (IF callsRandom(changeInCost) THEN 1 ELSE 0)
  /\ pc' = "best"
  /\ UNCHANGED <<options, initialState, heap, currentTemperature, bestState,
                 bestCost, i, neighborState, neighborCost, changeInCost,
                 randomGroupOne, randomGroupTwo, input, trials, nonImproving,
                 minSeen>>

improvesBestFlipped(cost, best) == costLess(best, cost)

improvesBestAlways(cost, best) == TRUE

improvesBestNever(cost, best) == FALSE

(* line 108: neighborCost < bestCost *)
improvesBest(cost, best) == costLess(cost, best)

(* lines 108-111, and the end of the for loop's body: i += 1; the locals
   of the body are gone. *)
Best ==
  /\ pc = "best"
  /\ IF improvesBest(neighborCost, bestCost)
       THEN /\ bestState' = neighborState
            /\ bestCost' = neighborCost
       ELSE UNCHANGED <<bestState, bestCost>>
  /\ heap' = collect(heap, {initialState, currentState, bestState'})
  /\ i' = i + 1
  /\ trials' = trials + 1
  /\ neighborState' = NoRef
  /\ neighborCost' = NoCost
  /\ changeInCost' = NoCost
  /\ rand' = NoDraw
  /\ pc' = "for"
  /\ UNCHANGED <<options, initialState, currentState, currentCost,
                 currentTemperature, randomGroupOne, randomGroupTwo, input,
                 draws, nonImproving, minSeen>>

(* test lines 139-143: the caller sorts the returned object in place *)
SortResult ==
  /\ pc = "done"
  /\ \E sorted \in {sortResult(heap[bestState].value)} :
       heap' = [heap EXCEPT ![bestState] = Cell(sorted)]
  /\ pc' = "sorted"
  /\ UNCHANGED <<options, initialState, currentState, currentCost,
                 currentTemperature, bestState, bestCost, i, neighborState,
                 neighborCost, changeInCost, rand, randomGroupOne,
                 randomGroupTwo, input, trials, draws, nonImproving, minSeen>>

(* A step of the call of runSimulatedAnnealing *)
Call ==
  \/ WhileEnter
  \/ Return
  \/ Cool
  \/ GenerateEmpty
  \/ GenerateBegin
  \/ Redraw
  \/ GenerateSwap
  \/ Accept
  \/ Best

Next == Call \/ SortResult

Spec == Init /\ [][Next]_vars

(* The call runs on one thread that keeps running: while it can take a
   step that changes its state, it takes one.  (A redraw that repeats the
   first index for ever has probability zero.) *)
FairSpec == Spec /\ WF_vars(Call)

----------------------------------------------------------------------------
(* Properties *)

(* The places where no inner-loop trial is under way. *)
BetweenTrials == pc \in {"while", "for", "done", "sorted"}

Returned == pc \in {"done", "sorted"}

result == heap[bestState].value

costLeq(x, y) == ~costLess(y, x)

(* C1: the state the call returns costs no more than initialState did:
   getCost(result) <= getCost(initialState), whatever the options (zero
   iterations included), the neighbours generated and the draws. *)
C1_CostNonRegression ==
  Returned => costLeq(getCost(result), getCost(input))

C1_Witness ==
  /\ pc = "done"
  /\ trials > 0
  /\ costLess(getCost(result), getCost(input))

(* C2: bestCost never increases, and after every inner-loop trial it is
   the least cost among initialState and all the neighbours generated so
   far, and bestState is a state with that cost. *)
C2_BestTracking ==
  [][/\ costLeq(bestCost', bestCost)
     /\ BetweenTrials' =>
          /\ bestCost' = minSeen'
          /\ getCost(heap'[bestState'].value) = bestCost']_vars

C2_Witness ==
  /\ pc = "for"
  /\ trials > 1
  /\ costLess(bestCost, getCost(input))
  /\ costLess(bestCost, currentCost)

(* The least n >= 0 with temperature * coolingFactor^n <= minimumTemperature. *)
RECURSIVE leastCooling(_, _)
leastCooling(temperature, n) ==
  IF ~RatLess(minimumTemperature, temperature) THEN n
  ELSE leastCooling(RatMul(temperature, coolingFactor), n + 1)

(* The greatest m >= 0 with temperature <= minimumTemperature * coolingFactor^m,
   for temperature <= minimumTemperature. *)
RECURSIVE greatestHeating(_, _)
greatestHeating(minimum, m) ==
  IF RatLess(RatMul(minimum, coolingFactor), initialTemperature) THEN m
  ELSE greatestHeating(RatMul(minimum, coolingFactor), m + 1)

(* ceil(log(minimumTemperature / initialTemperature) / log(coolingFactor)),
   over the reals: the least integer n, negative or not, with
   coolingFactor^n <= minimumTemperature / initialTemperature. *)
ceilLogRatio ==
  IF RatLess(minimumTemperature, initialTemperature)
    THEN leastCooling(initialTemperature, 0)
    ELSE 0 - greatestHeating(minimumTemperature, 0)

(* generateUniqueRandomNumbers(0, 0) is running: no draw differs from the
   first, so the strategy never returns to the engine. *)
StrategyNeverReturns ==
  pc = "unique" /\ Len(heap[currentState].value) = 1

(* C3 as stated: the call returns having made
   swapsPerTemperature * ceil(log(min/initial) / log(coolingFactor))
   trials, initialTemperature <= minimumTemperature included. *)
C3_TrialsAreCeilLog ==
  pc = "done" => trials = swapsPerTemperature * ceilLogRatio

(* C3, amended: every call whose strategy calls return reaches its return,
   and it has then made swapsPerTemperature * n trials, n being the least
   n >= 0 with initialTemperature * coolingFactor^n <= minimumTemperature
   (0 when initialTemperature <= minimumTemperature), whatever the state,
   the neighbours and the draws. *)
C3_TerminatesWithTrialCount ==
  /\ <>(pc = "done" \/ StrategyNeverReturns)
  /\ [](pc = "done" =>
          trials = swapsPerTemperature * leastCooling(initialTemperature, 0))

C3_Witness ==
  /\ pc = "done"
  /\ swapsPerTemperature > 1
  /\ trials = swapsPerTemperature * 3

(* C4: the object initialState refers to holds the value it held when the
   call began, also after the caller has sorted the result in place, and
   the object returned is not that object. *)
C4_InputUntouched ==
  /\ heap[initialState].live
  /\ heap[initialState].value = input
  /\ Returned => bestState # initialState

C4_Witness ==
  /\ pc = "sorted"
  /\ input = << <<4, 2>>, <<3, 1>> >>
  /\ result = << <<1, 3>>, <<2, 4>> >>

(* C5: currentState, bestState and initialState are three different
   objects at every point of a run. *)
C5_NoAliasing ==
  /\ currentState # bestState
  /\ currentState # initialState
  /\ bestState # initialState

Scenarios == {FourElements, EightElements}

target(state) ==
  IF state = FourElements THEN << <<1, 3>>, <<2, 4>> >>
  ELSE << <<1, 3, 5, 7>>, <<2, 4, 6, 8>> >>

(* The call of the model nearest to the first test's (which gives no
   options): ten trials at temperature 1, the defaults of
   swapsPerTemperature and initialTemperature. *)
TenTrials == Options(Half, Absent, <<1, 2>>, Absent)

(* C6 as stated, on the first of the two initial states of the tests: the
   sorted result is the grouping of all odd and all even numbers. *)
C6_AlwaysConverges ==
  (pc = "sorted" /\ input = FourElements /\ options = TenTrials) =>
     result = target(input)

(* C6, amended: on the two initial states of the tests the sorted result
   is the grouping of all odd and all even numbers exactly when the run
   generated a neighbour of that least cost; otherwise it is another
   grouping. *)
C6_ConvergesWhenSplitSeen ==
  (pc = "sorted" /\ input \in Scenarios) =>
     (result = target(input) <=> minSeen = getCost(target(input)))

C6_Witness ==
  /\ pc = "sorted"
  /\ input = EightElements
  /\ result = target(input)

Degenerate(state) ==
  state = <<>> \/ (Len(state) = 1 /\ Len(state[1]) <= 1)

(* C7: on an empty collection of groups, or a single group of size 0 or 1,
   the call returns, and returns a state equal to initialState. *)
C7_DegenerateReturns ==
  Degenerate(input) => <>(pc = "done" /\ result = input)

(* C8: a trial makes the neighbour the current state, and its cost the
   current cost, exactly when changeInCost < 0 or
   exp(-changeInCost / currentTemperature) > u, u being the draw; a
   rejected neighbour leaves currentState and currentCost as they were. *)
C8_AcceptanceRule ==
  [][pc = "accept" =>
       LET improving == RatLess(currentCost, neighborCost)
           below ==
             /\ rand' # NoDraw
             /\ Pow(changeInCost[1], currentTemperature[2])
                  * Pow(rand'[2], currentTemperature[1])
                > Pow(rand'[1], currentTemperature[1])
                  * Pow(changeInCost[2], currentTemperature[2])
       IN IF improving \/ below
            THEN currentState' = neighborState /\ currentCost' = neighborCost
            ELSE /\ UNCHANGED <<currentState, currentCost>>
                 /\ currentCost' # neighborCost]_vars

C8_Witness ==
  /\ pc = "best"
  /\ rand # NoDraw
  /\ rand # <<0, 1>>
  /\ currentState # neighborState
  /\ costLess(currentCost, neighborCost)

(* C9 as stated: the engine calls Math.random() once in every trial. *)
C9_OneDrawPerTrial ==
  BetweenTrials => draws = trials

(* C9, amended: the engine calls Math.random() in a trial exactly when
   changeInCost < 0 is false, and then once: over a run, as many times as
   there were neighbours that did not cost less than the current state. *)
C9_DrawsWhenNotImproving ==
  /\ BetweenTrials => (draws = nonImproving /\ draws <= trials)
  /\ pc = "best" => (rand = NoDraw <=> isNegative(changeInCost))

C9_Witness ==
  /\ pc = "done"
  /\ draws > 0
  /\ draws < trials

(* C10: at initialisation, after every complete trial and at return,
   bestCost <= currentCost. *)
C10_BestAtMostCurrent ==
  BetweenTrials => costLeq(bestCost, currentCost)

C10_Witness ==
  /\ pc = "for"
  /\ trials > 0
  /\ costLess(bestCost, currentCost)

====
